---- MODULE Spec2Model ----
(***************************************************************************)
(* A model of the bxgateway core: the compact block decompressor and its   *)
(* recovery resolver (messages/btc/compact_block_decompression.py), the    *)
(* block and transaction handlers of the blockchain connection protocol    *)
(* (connections/abstract_blockchain_connection_protocol.py).               *)
(*                                                                         *)
(* Bytes are the integers 0..255, a buffer is a sequence of bytes, a hex   *)
(* string is a sequence of hex digits 0..15.  Python indices are kept      *)
(* 0-based as values; position i of a Python list is element i + 1 here.   *)
(***************************************************************************)
EXTENDS Integers, Sequences, FiniteSets, TLC

\* ------------------------------------------------------------------------
\* Bounds of the model
\* ------------------------------------------------------------------------

\* The longest block (number of transaction slots) the decompressor is fed.
MaxBlockTxs == 3

\* The number of distinct transactions there are.
NumTxs == 3

\* The capacity of SeenBlocks in the model (a configuration constant of the
\* gateway).
SeenBlocksCapacity == 2

\* The number of distinct block hashes the local node announces.
NumBlockHashes == 3

\* The most tuples the converter makes of one transaction message.
MaxTxTuples == 2

\* The messages for the local node, and the most messages a queue holds.
NumNodeMsgs == 3

MaxQueued == 3

\* The most log_* calls on one statistics interval, the most intervals the
\* statistics service creates, and the largest look_back it is built with.
MaxLogged == 2

MaxIntervals == 2

MaxLookBack == 2

\* ------------------------------------------------------------------------
\* Program constants
\* ------------------------------------------------------------------------

\* btc_constants.BTC_HDR_COMMON_OFF: the length of the message envelope.
BTC_HDR_COMMON_OFF == 24

\* btc_constants.BTC_HEADER_MINUS_CHECKSUM: the offset of the checksum.
BTC_HEADER_MINUS_CHECKSUM == 20

\* The length of msg.block_header(), a Bitcoin block header.
BLOCK_HEADER_LEN == 80

\* A Python value that may be None (Optional[T]) is a set of at most one
\* element: None is the empty set, a value x is {x}.
None == {}

Some(x) == {x}

Val(o) == CHOOSE x \in o : TRUE

\* ------------------------------------------------------------------------
\* Sequences and bytes
\* ------------------------------------------------------------------------

\* A sequence given as a function, as the tuple of its elements.
Tuple(s) == SubSeq(s, 1, Len(s))

\* buf[::-1]
Reverse(s) == Tuple([i \in 1..Len(s) |-> s[Len(s) + 1 - i]])

\* buf[from:to], Python's half-open 0-based slice (0 <= from <= to <= len).
Slice(s, from, to) == SubSeq(s, from + 1, to)

\* bytearray(n): n zero bytes.
Zeros(n) == Tuple([i \in 1..n |-> 0])

\* The concatenation of a list of buffers.
RECURSIVE Concat(_)
Concat(parts) ==
    IF parts = <<>> THEN <<>> ELSE Head(parts) \o Concat(Tail(parts))

\* sum of len(p) over a list of buffers.
RECURSIVE TotalLen(_)
TotalLen(parts) ==
    IF parts = <<>> THEN 0 ELSE Len(Head(parts)) + TotalLen(Tail(parts))

\* struct "<L" / little-endian fixed width: the n low bytes of v.
RECURSIVE LittleEndian(_, _)
LittleEndian(v, n) ==
    IF n = 0 THEN <<>> ELSE <<v % 256>> \o LittleEndian(v \div 256, n - 1)

\* The integer a little-endian buffer encodes.
RECURSIVE FromLittleEndian(_)
FromLittleEndian(b) ==
    IF b = <<>> THEN 0 ELSE Head(b) + 256 * FromLittleEndian(Tail(b))

\* convert.hex_to_bytes: two hex digits make one byte, high digit first.
hex_to_bytes(hex) ==
    Tuple([i \in 1..(Len(hex) \div 2) |-> 16 * hex[2 * i - 1] + hex[2 * i]])

\* convert.bytes_to_hex: one byte makes two hex digits, high digit first.
bytes_to_hex(b) ==
    Tuple([i \in 1..(2 * Len(b)) |->
            IF i % 2 = 1 THEN b[(i + 1) \div 2] \div 16 ELSE b[i \div 2] % 16])

\* ------------------------------------------------------------------------
\* Hash functions.  The digests are stand-ins: deterministic, sensitive to
\* the order of the input bytes, of the real output width, and not
\* injective (as no 6-byte truncation of a hash of 32 bytes is).
\* ------------------------------------------------------------------------

\* i * b[i], 0 past the end of b.
Term(b, i) == IF i <= Len(b) THEN i * b[i] ELSE 0

\* sum of (i * b[i]) for i from lo on, the order-sensitive mix the stand-in
\* digests share (eight terms a step, to keep the recursion short).
RECURSIVE WeightedSumFrom(_, _)
WeightedSumFrom(b, lo) ==
    IF lo > Len(b) THEN 0
    ELSE (Term(b, lo) + Term(b, lo + 1) + Term(b, lo + 2) + Term(b, lo + 3)
          + Term(b, lo + 4) + Term(b, lo + 5) + Term(b, lo + 6) + Term(b, lo + 7)
          + WeightedSumFrom(b, lo + 8)) % 65536

WeightedSum(b) == WeightedSumFrom(b, 1)

\* hashlib.sha256(data).digest(): 32 bytes.
Digest(w, n) == Tuple([i \in 1..32 |-> (w * i + n + i) % 256])

sha256(data) == Digest(WeightedSum(data), Len(data))

\* crypto.bitcoin_hash: double SHA-256.
bitcoin_hash(data) == sha256(sha256(data))

\* csiphash.siphash24(key, data): 8 bytes.
siphash24(key, data) ==
    LittleEndian((WeightedSum(key) + WeightedSum(data)) % 65536, 8)

\* ------------------------------------------------------------------------
\* Wire codec (btc_messages_util)
\* ------------------------------------------------------------------------

\* get_sizeof_btc_varint(n): the CompactSize width of n (n \div 65536 <=
\* 65535 is n <= 0xFFFFFFFF).
get_sizeof_btc_varint(n) ==
    IF n < 253 THEN 1
    ELSE IF n <= 65535 THEN 3
    ELSE IF n \div 65536 <= 65535 THEN 5
    ELSE 9

\* pack_int_to_btc_varint(n, buf, 0) on a buffer of exactly the varint's size.
pack_int_to_btc_varint(n) ==
    IF n < 253 THEN <<n>>
    ELSE IF n <= 65535 THEN <<253>> \o LittleEndian(n, 2)
    ELSE IF n \div 65536 <= 65535 THEN <<254>> \o LittleEndian(n, 4)
    ELSE <<255>> \o LittleEndian(n, 8)

\* BtcMessageType.BLOCK packed by struct "12s": b"block" zero-padded.
BLOCK_COMMAND == <<98, 108, 111, 99, 107>> \o Zeros(7)

\* ------------------------------------------------------------------------
\* The transaction cache (TransactionService.hash_to_contents): a dict from
\* display-order hex hash to raw transaction bytes, modelled as the list of
\* its entries in enumeration (insertion) order, no hash twice.
\* ------------------------------------------------------------------------

\* transaction_service.get_all_transaction_hashes()
get_all_transaction_hashes(cache) ==
    Tuple([i \in 1..Len(cache) |-> cache[i].hash])

\* transaction_service.get_transaction_by_hash(tx_hash_str)
GetFirstTransaction(cache, tx_hash_str) == cache[1].contents

get_transaction_by_hash(cache, tx_hash_str) ==
    LET i == CHOOSE j \in 1..Len(cache) : cache[j].hash = tx_hash_str
    IN  cache[i].contents

\* A Python dict as a function; d[k] = v overwrites or adds.
EmptyDict == [k \in {} |-> None]

DictSet(d, k, v) == [x \in (DOMAIN d) \cup {k} |-> IF x = k THEN v ELSE d[x]]

\* x in list
InList(x, list) == \E i \in 1..Len(list) : list[i] = x

\* The elements of a sequence, and the least of a set of numbers.
Range(s) == {s[i] : i \in 1..Len(s)}

Min(S) == CHOOSE x \in S : \A y \in S : x <= y

\* ------------------------------------------------------------------------
\* compact_block_decompression.py
\* ------------------------------------------------------------------------

\* _compute_short_id: the first 6 bytes of SipHash-2-4.
compute_short_id(key, tx_hash) == Slice(siphash24(key, tx_hash), 0, 6)

\* The SipHash key of a compact block: SHA256(header + nonce)[0:16].
SipKey(msg) ==
    Slice(sha256(msg.block_header \o msg.short_nonce_buf), 0, 16)

\* convert.hex_to_bytes(tx_hash_str)[::-1]: the cache's display-order hex
\* hash turned into the byte order short IDs are computed over.
TxHashBytesNoReverse(tx_hash_str) == hex_to_bytes(tx_hash_str)

tx_hash_bytes(tx_hash_str) == Reverse(hex_to_bytes(tx_hash_str))

\* The loop over the cache that builds short_id_to_tx_hash: an entry for
\* every cached transaction whose short ID the compact block lists; a later
\* transaction with the same short ID overwrites an earlier one.
RECURSIVE BuildShortIdMap(_, _, _, _, _)
BuildShortIdMap(key, short_ids, cache, i, map) ==
    IF i > Len(cache) THEN map
    ELSE LET tx_hash_str == get_all_transaction_hashes(cache)[i]
             tx_short_id == compute_short_id(key, tx_hash_bytes(tx_hash_str))
             tx_short_id_str == bytes_to_hex(tx_short_id)
         IN  BuildShortIdMap(key, short_ids, cache, i + 1,
                IF InList(tx_short_id_str, short_ids)
                THEN DictSet(map, tx_short_id_str,
                             get_transaction_by_hash(cache, tx_hash_str))
                ELSE map)

ShortIdMapOfStaleSnapshot(msg, cache) ==
    BuildShortIdMap(SipKey(msg), msg.short_ids,
                    SubSeq(cache, 1, Len(cache) - 1), 1, EmptyDict)

short_id_to_tx_hash(msg, cache) ==
    BuildShortIdMap(SipKey(msg), msg.short_ids, cache, 1, EmptyDict)

\* _get_prefilled_tx_by_index: the bytes of the first prefilled entry with
\* this absolute index, None when there is none.
get_prefilled_tx_by_index(prefilled_txs, index) ==
    IF \E i \in 1..Len(prefilled_txs) : prefilled_txs[i][1] = index
    THEN LET i == CHOOSE j \in 1..Len(prefilled_txs) :
                    /\ prefilled_txs[j][1] = index
                    /\ \A k \in 1..(j - 1) : prefilled_txs[k][1] # index
         IN  Some(prefilled_txs[i][2])
    ELSE None

\* The start of the message parts: the block header and the varint of the
\* transaction count, and their size.
HeaderPartsNoCountSize(block_header, total_txs_count) ==
    [block_msg_parts |-> <<block_header, pack_int_to_btc_varint(total_txs_count)>>,
     size |-> Len(block_header)]

HeaderParts(block_header, total_txs_count) ==
    [block_msg_parts |-> <<block_header, pack_int_to_btc_varint(total_txs_count)>>,
     size |-> Len(block_header) + get_sizeof_btc_varint(total_txs_count)]

\* A slot whose short ID is not in the map: its index is recorded as missing
\* and None holds its place in block_transactions.
MissingSlotNoPlaceholder(st, index) ==
    [st EXCEPT !.missing_transactions_indices = Append(@, index)]

MissingSlot(st, index) ==
    [st EXCEPT !.missing_transactions_indices = Append(@, index),
               !.block_transactions = Append(@, None)]

\* A slot whose transaction is known (prefilled, or found by short ID).
FilledSlot(st, tx) ==
    [st EXCEPT !.block_msg_parts = Append(@, tx),
               !.block_transactions = Append(@, Some(tx)),
               !.size = @ + Len(tx)]

\* One iteration of the loop over range(total_txs_count).  Indexing
\* short_ids past its end raises IndexError, which nothing here catches.
SlotStepCursorOnFound(st, msg, map, index) ==
    LET prefilled_tx == get_prefilled_tx_by_index(msg.prefilled_txns, index)
    IN  IF prefilled_tx = None
        THEN IF st.short_tx_index >= Len(msg.short_ids)
             THEN [st EXCEPT !.raised = "IndexError"]
             ELSE LET short_id == msg.short_ids[st.short_tx_index + 1]
                  IN  IF short_id \in DOMAIN map
                      THEN [FilledSlot(st, map[short_id])
                                EXCEPT !.short_tx_index = @ + 1]
                      ELSE MissingSlot(st, index)
        ELSE FilledSlot(st, Val(prefilled_tx))

SlotStep(st, msg, map, index) ==
    LET prefilled_tx == get_prefilled_tx_by_index(msg.prefilled_txns, index)
    IN  IF prefilled_tx = None
        THEN IF st.short_tx_index >= Len(msg.short_ids)
             THEN [st EXCEPT !.raised = "IndexError"]
             ELSE LET short_id == msg.short_ids[st.short_tx_index + 1]
                      next == IF short_id \in DOMAIN map
                              THEN FilledSlot(st, map[short_id])
                              ELSE MissingSlot(st, index)
                  IN  [next EXCEPT !.short_tx_index = @ + 1]
        ELSE FilledSlot(st, Val(prefilled_tx))

\* The loop over range(total_txs_count), left at the first exception.
RECURSIVE WalkSlots(_, _, _, _, _)
WalkSlots(st, msg, map, index, total_txs_count) ==
    IF index >= total_txs_count \/ st.raised # "" THEN st
    ELSE WalkSlots(SlotStep(st, msg, map, index), msg, map, index + 1,
                   total_txs_count)

\* The state of the walk before its first iteration.
WalkStart(msg, total_txs_count) ==
    LET h == HeaderParts(msg.block_header, total_txs_count)
    IN  [short_tx_index |-> 0,
         block_msg_parts |-> h.block_msg_parts,
         block_transactions |-> <<>>,
         missing_transactions_indices |-> <<>>,
         size |-> h.size,
         raised |-> ""]

\* The copy of the parts into bytearray(size): each blob is assigned to the
\* slice [off:off + len(blob)], which extends the buffer when it is too
\* short and leaves its zeros when it is too long.
CopyParts(parts, size) ==
    LET bytes == Concat(parts)
    IN  IF Len(bytes) >= size THEN bytes ELSE bytes \o Zeros(size - Len(bytes))

\* The envelope is packed ("<L12sL": magic, command, payload size) and put
\* first, the parts are copied into one buffer and the first 4 bytes of the
\* double SHA-256 of buffer[24:size] are written at [20:24].
AssembleBlockMessage(magic, block_msg_parts, size) ==
    LET msg_header == LittleEndian(magic, 4) \o BLOCK_COMMAND
                        \o LittleEndian(size, 4)
                        \o Zeros(BTC_HDR_COMMON_OFF - 20)
        full_size == size + BTC_HDR_COMMON_OFF
        block_msg_bytes == CopyParts(<<msg_header>> \o block_msg_parts, full_size)
        checksum == bitcoin_hash(Slice(block_msg_bytes, BTC_HDR_COMMON_OFF, full_size))
    IN  Slice(block_msg_bytes, 0, BTC_HEADER_MINUS_CHECKSUM)
            \o Slice(checksum, 0, 4)
            \o Slice(block_msg_bytes, BTC_HDR_COMMON_OFF, Len(block_msg_bytes))

\* What decompress_compact_block returns after the walk: the partial result
\* when a transaction is missing, the assembled block message otherwise.
DecompressionReturnNoPartial(magic, st) ==
    [raised |-> "",
     success |-> TRUE,
     block_btc_message |->
            Some(AssembleBlockMessage(magic, st.block_msg_parts, st.size)),
     block_transactions |-> None,
     missing_transactions_indices |-> None]

DecompressionReturn(magic, st) ==
    IF Len(st.missing_transactions_indices) > 0
    THEN [raised |-> "",
          success |-> FALSE,
          block_btc_message |-> None,
          block_transactions |-> Some(st.block_transactions),
          missing_transactions_indices |-> Some(st.missing_transactions_indices)]
    ELSE [raised |-> "",
          success |-> TRUE,
          block_btc_message |->
            Some(AssembleBlockMessage(magic, st.block_msg_parts, st.size)),
          block_transactions |-> None,
          missing_transactions_indices |-> None]

\* An exception leaving decompress_compact_block: nothing is returned (the
\* fields other than raised stand for no value).
Raised(exception) ==
    [raised |-> exception,
     success |-> FALSE,
     block_btc_message |-> None,
     block_transactions |-> None,
     missing_transactions_indices |-> None]

decompress_compact_block(magic, msg, cache) ==
    LET map == short_id_to_tx_hash(msg, cache)
        total_txs_count == Len(msg.prefilled_txns) + Len(msg.short_ids)
        st == WalkSlots(WalkStart(msg, total_txs_count), msg, map, 0,
                        total_txs_count)
    IN  IF st.raised # "" THEN Raised(st.raised)
        ELSE DecompressionReturn(magic, st)

\* The length check at the top of decompress_recovered_compact_block.
RecoveryMismatchOnlyShorter(missing_indices, recovered_transactions) ==
    Len(missing_indices) > Len(recovered_transactions)

RecoveryMismatch(missing_indices, recovered_transactions) ==
    Len(missing_indices) # Len(recovered_transactions)

\* missing_index = missing_indices[i]: the slot the i-th recovered
\* transaction goes to.
RecoveredSlotByPosition(missing_indices, i) == i

RecoveredSlot(missing_indices, i) == missing_indices[i + 1]

\* block_transactions[missing_index] = recovered_transactions[i]: the slot
\* gets the transaction, whatever it held.
SetSlotExtend(block_transactions, missing_index, tx) ==
    [block_transactions EXCEPT
        ![missing_index + 1] = IF @ = None THEN Some(tx) ELSE Some(Val(@) \o tx)]

SetSlot(block_transactions, missing_index, tx) ==
    [block_transactions EXCEPT ![missing_index + 1] = Some(tx)]

\* The loop block_transactions[missing_indices[i]] = recovered_transactions[i],
\* writing into the caller's list; an index past the end of the list raises
\* IndexError and leaves the writes made so far.
RECURSIVE FillRecovered(_, _, _, _)
FillRecovered(block_transactions, missing_indices, recovered_transactions, i) ==
    IF i >= Len(missing_indices)
    THEN [block_transactions |-> block_transactions, raised |-> ""]
    ELSE LET missing_index == RecoveredSlot(missing_indices, i)
         IN  IF missing_index >= Len(block_transactions)
             THEN [block_transactions |-> block_transactions,
                   raised |-> "IndexError"]
             ELSE FillRecovered(
                    SetSlot(block_transactions, missing_index,
                            recovered_transactions[i + 1]),
                    missing_indices, recovered_transactions, i + 1)

\* The transactions of a slot list with no empty slot.
Unwrapped(txs) == Tuple([k \in 1..Len(txs) |-> Val(txs[k])])

\* decompress_recovered_compact_block: its result, and block_transactions
\* as the call leaves the caller's list.  len(None) raises TypeError when a
\* slot is still empty after the fill; with an exception nothing is returned.
DecompressRecoveredOnCopy(magic, msg, block_transactions, missing_indices, recovered_transactions) ==
    IF RecoveryMismatch(missing_indices, recovered_transactions)
    THEN [raised |-> "", success |-> FALSE, block_btc_message |-> None,
          block_transactions |-> block_transactions]
    ELSE LET filled == FillRecovered(block_transactions, missing_indices,
                                     recovered_transactions, 0)
             txs == filled.block_transactions
             h == HeaderParts(msg.block_header, Len(txs))
         IN  IF filled.raised # ""
             THEN [raised |-> filled.raised, success |-> FALSE,
                   block_btc_message |-> None,
                   block_transactions |-> block_transactions]
             ELSE IF \E k \in 1..Len(txs) : txs[k] = None
             THEN [raised |-> "TypeError", success |-> FALSE,
                   block_btc_message |-> None,
                   block_transactions |-> block_transactions]
             ELSE [raised |-> "", success |-> TRUE,
                   block_btc_message |->
                        Some(AssembleBlockMessage(magic,
                                h.block_msg_parts \o Unwrapped(txs),
                                h.size + TotalLen(Unwrapped(txs)))),
                   block_transactions |-> block_transactions]

decompress_recovered_compact_block(magic, msg, block_transactions, missing_indices, recovered_transactions) ==
    IF RecoveryMismatch(missing_indices, recovered_transactions)
    THEN [raised |-> "", success |-> FALSE, block_btc_message |-> None,
          block_transactions |-> block_transactions]
    ELSE LET filled == FillRecovered(block_transactions, missing_indices,
                                     recovered_transactions, 0)
             txs == filled.block_transactions
             h == HeaderParts(msg.block_header, Len(txs))
         IN  IF filled.raised # ""
             THEN [raised |-> filled.raised, success |-> FALSE,
                   block_btc_message |-> None, block_transactions |-> txs]
             ELSE IF \E k \in 1..Len(txs) : txs[k] = None
             THEN [raised |-> "TypeError", success |-> FALSE,
                   block_btc_message |-> None, block_transactions |-> txs]
             ELSE [raised |-> "", success |-> TRUE,
                   block_btc_message |->
                        Some(AssembleBlockMessage(magic,
                                h.block_msg_parts \o Unwrapped(txs),
                                h.size + TotalLen(Unwrapped(txs)))),
                   block_transactions |-> txs]

\* ------------------------------------------------------------------------
\* Inputs: the transactions, blocks, caches and compact blocks the
\* decompressor is run on.
\* ------------------------------------------------------------------------

\* The network magic the gateway is configured with (Bitcoin testnet3,
\* 0x0709110B).
BTC_MAGIC == 118034699

\* The transactions of the model, by number.
Txs == 1..NumTxs

\* The raw bytes of a transaction, of different lengths.
TxBytes(t) == Tuple([i \in 1..(1 + (t % 3)) |-> t])

\* The 32-byte hash of a transaction in natural (internal) byte order.  The
\* hashes are distinct; transactions 2 and 3 have the same short ID under
\* every key, the others have short IDs of their own.
TxHash(t) ==
    LET first == CASE t = 1 -> 3 [] t = 2 -> 65 [] t = 3 -> 33 [] OTHER -> t
        last  == CASE t = 1 -> 5 [] t = 2 -> 0 [] t = 3 -> 1 [] OTHER -> 7 + t
    IN  Tuple([i \in 1..32 |->
                IF i = 1 THEN first ELSE IF i = 32 THEN last ELSE 0])

\* The hash as the cache keys it: display-order hex, the reverse of the
\* natural order.
TxHashStr(t) == bytes_to_hex(Reverse(TxHash(t)))

\* The cache entry of a transaction.
CacheEntry(t) == [hash |-> TxHashStr(t), contents |-> TxBytes(t)]

\* The elements of a finite set of integers in ascending order.
RECURSIVE Ascending(_)
Ascending(S) ==
    IF S = {} THEN <<>>
    ELSE LET m == CHOOSE x \in S : \A y \in S : x <= y
         IN  <<m>> \o Ascending(S \ {m})

\* The orders the model takes the elements of a set in: ascending and
\* descending.
OrderedSeqs(S) ==
    {Ascending(T) : T \in SUBSET S} \cup {Reverse(Ascending(T)) : T \in SUBSET S}

\* A block is its transactions in order, none twice, at least one.
Blocks == {b \in OrderedSeqs(Txs) : Len(b) >= 1 /\ Len(b) <= MaxBlockTxs}

\* A cache holds any of the transactions, in one of the enumeration orders.
Caches == {Tuple([i \in 1..Len(s) |-> CacheEntry(s[i])]) : s \in OrderedSeqs(Txs)}

\* The 80-byte header and the 8-byte nonce of the compact block of block b.
BlockHeader(b) ==
    Tuple([i \in 1..BLOCK_HEADER_LEN |-> (7 * i + Len(b) + b[1]) % 256])

ShortNonce(b) == LittleEndian(1000 + b[1], 8)

\* The short ID a peer computes for transaction t under a block's key.
ShortIdStr(key, t) == bytes_to_hex(compute_short_id(key, TxHash(t)))

\* The compact block a peer sends for block b under this header and nonce,
\* with the slots in prefilled (positions 1..Len(b)) sent in full and the
\* others as short IDs, in slot order; a prefilled entry is (absolute
\* 0-based index, bytes).
CompactBlockOf(header, nonce, b, prefilled) ==
    LET key == SipKey([block_header |-> header, short_nonce_buf |-> nonce])
        pre == Ascending(prefilled)
        short == Ascending((1..Len(b)) \ prefilled)
    IN  [block_header |-> header,
         short_nonce_buf |-> nonce,
         short_ids |->
            Tuple([i \in 1..Len(short) |-> ShortIdStr(key, b[short[i]])]),
         prefilled_txns |->
            Tuple([i \in 1..Len(pre) |-> <<pre[i] - 1, TxBytes(b[pre[i]])>>])]

CompactBlock(b, prefilled) ==
    CompactBlockOf(BlockHeader(b), ShortNonce(b), b, prefilled)

\* A malformed compact block: "dup" gives the second prefilled entry the
\* index of the first, "oob" gives the last prefilled entry the index N.
Malformed(m, kind) ==
    LET n == Len(m.prefilled_txns)
        total == n + Len(m.short_ids)
    IN  CASE kind = "dup" ->
                [m EXCEPT !.prefilled_txns[2][1] = m.prefilled_txns[1][1]]
          [] kind = "oob" -> [m EXCEPT !.prefilled_txns[n][1] = total]
          [] OTHER -> m

\* The kinds of compact block that can be made of one with these prefilled slots.
Kinds(prefilled) ==
    {"wellformed"} \cup (IF Cardinality(prefilled) >= 2 THEN {"dup"} ELSE {})
                   \cup (IF Cardinality(prefilled) >= 1 THEN {"oob"} ELSE {})

\* ------------------------------------------------------------------------
\* State
\* ------------------------------------------------------------------------

VARIABLES
    \* The decompressor and the recovery resolver, run on one compact block:
    block,                  \* the block the peer compacted (transaction numbers)
    kind,                   \* "wellformed", "dup" or "oob"
    msg,                    \* the compact block message received
    tx_cache,               \* the transaction cache, in enumeration order
    pc,                     \* "received", "complete", "partial", "raised", "recovered"
    result,                 \* what decompress_compact_block returned
    block_transactions,     \* the slot list the caller keeps for recovery
    missing_indices,        \* the missing indices the caller keeps for recovery
    recovered_transactions, \* the transactions handed to the resolver
    recovery_result,        \* what decompress_recovered_compact_block returned
    second_recovery_result, \* what it returned when called again
    \* The gateway node the connection protocol works on:
    blx_txmsgs,             \* the converter's tuples of the transaction
                            \* message handled last
    blocks_seen,            \* node.blocks_seen, oldest hash first
    recovery_registry,      \* the block hashes with a recovery pending
    in_progress_blocks,     \* node.in_progress_blocks: the block hashes an
                            \* encryption key is kept for
    calls,                  \* the collaborator calls and statistics events of
                            \* the handler that ran last, in order
    node_conn,              \* node.node_conn: None, or the connection to the
                            \* local node as its outbound queue
    node_msg_queue,         \* node.node_msg_queue
    \* The BDN performance statistics service:
    look_back,              \* the look_back it was constructed with
    intervals,              \* the interval objects created so far
    interval_data,          \* self.interval_data: the current one (its place
                            \* in intervals)
    history,                \* self.history: closed intervals (their places)
    logged                  \* the log_* calls made since the current interval
                            \* was created, by kind

decomp_vars == <<block, kind, msg, pc, result, block_transactions,
                 missing_indices, recovered_transactions, recovery_result,
                 second_recovery_result>>

node_vars == <<blx_txmsgs, blocks_seen, recovery_registry, in_progress_blocks,
               calls>>

vars == <<block, kind, msg, tx_cache, pc, result, block_transactions,
          missing_indices, recovered_transactions, recovery_result,
          second_recovery_result, blx_txmsgs, blocks_seen, recovery_registry,
          in_progress_blocks, calls, node_conn, node_msg_queue, look_back,
          intervals, interval_data, history, logged>>

conn_vars == <<node_conn, node_msg_queue>>

stats_vars == <<look_back, intervals, interval_data, history, logged>>

\* GatewayNode.__init__: no connection to the local node, nothing queued.
InitConn ==
    /\ node_conn = None
    /\ node_msg_queue = <<>>

\* GatewayBdnPerformanceStatInterval.__init__: the four counters at 0 (closed
\* stands for end_time being set).
NewInterval ==
    [new_blocks_received_from_blockchain_node |-> 0,
     new_blocks_received_from_bdn |-> 0,
     new_tx_received_from_blockchain_node |-> 0,
     new_tx_received_from_bdn |-> 0,
     closed |-> FALSE]

NothingLogged ==
    [log_block_from_blockchain_node |-> 0, log_block_from_bdn |-> 0,
     log_tx_from_blockchain_node |-> 0, log_tx_from_bdn |-> 0]

\* _GatewayBdnPerformanceStatsService.__init__(interval, look_back): the
\* first interval is open, the history is empty.
StatsConstructed(lb) ==
    /\ look_back = lb
    /\ intervals = <<NewInterval>>
    /\ interval_data = 1
    /\ history = <<>>
    /\ logged = NothingLogged

\* ------------------------------------------------------------------------
\* The decompressor run on every compact block and cache of the bounds
\* ------------------------------------------------------------------------

\* The result variables before the call that sets them (pc tells).
NoResult == Raised("")

NoRecoveryResult == [raised |-> "", success |-> FALSE, block_btc_message |-> None]

InitDecomp ==
    /\ block \in Blocks
    /\ kind \in {"wellformed", "dup", "oob"}
    /\ \E prefilled \in SUBSET (1..Len(block)) :
            /\ kind \in Kinds(prefilled)
            /\ msg = Malformed(CompactBlock(block, prefilled), kind)
    /\ tx_cache \in Caches
    /\ pc = "received"
    /\ result = NoResult
    /\ block_transactions = <<>>
    /\ missing_indices = <<>>
    /\ recovered_transactions = <<>>
    /\ recovery_result = NoRecoveryResult
    /\ second_recovery_result = NoRecoveryResult
    /\ blx_txmsgs = <<>>
    /\ blocks_seen = <<>>
    /\ recovery_registry = EmptyDict
    /\ in_progress_blocks = {}
    /\ calls = <<>>
    /\ InitConn
    /\ StatsConstructed(1)

\* The compact block is decompressed; on a partial result the caller keeps
\* the slot list and the missing indices (CompactBlockRecoveryItem).
Decompress ==
    /\ pc = "received"
    /\ LET r == decompress_compact_block(BTC_MAGIC, msg, tx_cache)
       IN  /\ result' = r
           /\ pc' = IF r.raised # "" THEN "raised"
                    ELSE IF r.success THEN "complete" ELSE "partial"
           /\ block_transactions' =
                IF r.block_transactions = None THEN <<>>
                ELSE Val(r.block_transactions)
           /\ missing_indices' =
                IF r.missing_transactions_indices = None THEN <<>>
                ELSE Val(r.missing_transactions_indices)
    /\ UNCHANGED <<block, kind, msg, tx_cache, recovered_transactions,
                   recovery_result, second_recovery_result>>
    /\ UNCHANGED node_vars
    /\ UNCHANGED <<conn_vars, stats_vars>>

\* The transactions of the block at the missing indices, in that order:
\* what the recovery service delivers.
MissingTransactions(b, missing) ==
    Tuple([i \in 1..Len(missing) |-> TxBytes(b[missing[i] + 1])])

\* What the resolver may be handed: the missing transactions, or a list one
\* shorter, one longer, or empty.
RecoveredChoices(b, missing) ==
    LET right == MissingTransactions(b, missing)
    IN  {right, SubSeq(right, 1, Len(right) - 1), Append(right, TxBytes(1)), <<>>}

\* The recovery service delivers transactions for the partial block.
Recover ==
    /\ pc = "partial"
    /\ \E recovered \in RecoveredChoices(block, missing_indices) :
        /\ LET r == decompress_recovered_compact_block(BTC_MAGIC, msg,
                        block_transactions, missing_indices, recovered)
           IN  /\ recovery_result' = [raised |-> r.raised, success |-> r.success,
                                      block_btc_message |-> r.block_btc_message]
               /\ block_transactions' = r.block_transactions
        /\ recovered_transactions' = recovered
    /\ pc' = "recovered"
    /\ UNCHANGED <<block, kind, msg, tx_cache, result, missing_indices,
                   second_recovery_result>>
    /\ UNCHANGED node_vars
    /\ UNCHANGED <<conn_vars, stats_vars>>

\* The resolver is called again with the same compact block, the same slot
\* list (as the first call left it), the same missing indices and the same
\* recovered transactions.
RecoverAgain ==
    /\ pc = "recovered"
    /\ LET r == decompress_recovered_compact_block(BTC_MAGIC, msg,
                    block_transactions, missing_indices, recovered_transactions)
       IN  /\ second_recovery_result' =
                    [raised |-> r.raised, success |-> r.success,
                     block_btc_message |-> r.block_btc_message]
           /\ block_transactions' = r.block_transactions
    /\ pc' = "recovered_twice"
    /\ UNCHANGED <<block, kind, msg, tx_cache, result, missing_indices,
                   recovered_transactions, recovery_result>>
    /\ UNCHANGED node_vars
    /\ UNCHANGED <<conn_vars, stats_vars>>

NextDecomp ==
    \/ Decompress
    \/ Recover
    \/ RecoverAgain

SpecDecomp == InitDecomp /\ [][NextDecomp]_vars

\* ------------------------------------------------------------------------
\* Block and transaction dispatch (AbstractBlockchainConnectionProtocol)
\* ------------------------------------------------------------------------

BlockHashes == 1..NumBlockHashes


\* One entry of the trace of a handler: a statistics event or a call to a
\* collaborator, with the block hash or transaction it is about.
Event(name, arg) == <<name, arg>>

\* The block the local node announces under hash h (the announced blocks
\* differ in their headers and carry the same transaction), its header, and
\* its compact form (every transaction as a short ID).
PipelineBlock(h) == <<Min(Txs)>>

\* The transactions of the announced blocks.
PipelineTxs == UNION {Range(PipelineBlock(h)) : h \in BlockHashes}

PipelineHeader(h) == Tuple([i \in 1..BLOCK_HEADER_LEN |-> (11 * i + h) % 256])

PipelineCompactBlock(h) ==
    CompactBlockOf(PipelineHeader(h), LittleEndian(2000 + h, 8),
                   PipelineBlock(h), {})

\* block_hash in blocks_seen.contents
AlreadySeenOnlyLatest(block_hash, seen) ==
    seen # <<>> /\ seen[Len(seen)] = block_hash

AlreadySeen(block_hash, seen) == InList(block_hash, seen)

\* blocks_seen.add: a bounded set in insertion order; a hash it holds is not
\* inserted again, and on overflow the oldest hash is evicted.
BlocksSeenAddEvictsNewest(seen, block_hash) ==
    IF InList(block_hash, seen) THEN seen
    ELSE IF Len(seen) >= SeenBlocksCapacity
         THEN Append(SubSeq(seen, 1, Len(seen) - 1), block_hash)
         ELSE Append(seen, block_hash)

blocks_seen_add(seen, block_hash) ==
    IF InList(block_hash, seen) THEN seen
    ELSE LET added == Append(seen, block_hash)
         IN  IF Len(added) > SeenBlocksCapacity THEN Tail(added) ELSE added

\* block_recovery_service.cancel_recovery_for_block: the entry of block_hash,
\* if any, is dropped.
cancel_recovery_for_block(registry, block_hash) ==
    [h \in (DOMAIN registry) \ {block_hash} |-> registry[h]]

\* msg_block for a block seen before: two statistics events, no other effect.
SeenPathReAdds(block_hash, seen, registry) ==
    [calls |-> <<Event("BLOCK_RECEIVED_FROM_BLOCKCHAIN_NODE", block_hash),
                 Event("BLOCK_RECEIVED_FROM_BLOCKCHAIN_NODE_IGNORE_SEEN", block_hash)>>,
     blocks_seen |->
        Append(SelectSeq(seen, LAMBDA x : x # block_hash), block_hash),
     recovery_registry |-> registry]

SeenPath(block_hash, seen, registry) ==
    [calls |-> <<Event("BLOCK_RECEIVED_FROM_BLOCKCHAIN_NODE", block_hash),
                 Event("BLOCK_RECEIVED_FROM_BLOCKCHAIN_NODE_IGNORE_SEEN", block_hash)>>,
     blocks_seen |-> seen,
     recovery_registry |-> registry]

\* msg_block for a block not seen before: compress, propagate, cancel the
\* recovery, remember the hash.
UnseenPathAddsFirst(block_hash, seen, registry) ==
    [calls |-> <<Event("BLOCK_RECEIVED_FROM_BLOCKCHAIN_NODE", block_hash),
                 Event("block_to_bx_block", block_hash),
                 Event("BLOCK_COMPRESSED", block_hash),
                 Event("blocks_seen.add", block_hash),
                 Event("propagate_block_to_network", block_hash),
                 Event("cancel_recovery_for_block", block_hash)>>,
     blocks_seen |-> blocks_seen_add(seen, block_hash),
     recovery_registry |-> cancel_recovery_for_block(registry, block_hash)]

UnseenPath(block_hash, seen, registry) ==
    [calls |-> <<Event("BLOCK_RECEIVED_FROM_BLOCKCHAIN_NODE", block_hash),
                 Event("block_to_bx_block", block_hash),
                 Event("BLOCK_COMPRESSED", block_hash),
                 Event("propagate_block_to_network", block_hash),
                 Event("cancel_recovery_for_block", block_hash),
                 Event("blocks_seen.add", block_hash)>>,
     blocks_seen |-> blocks_seen_add(seen, block_hash),
     recovery_registry |-> cancel_recovery_for_block(registry, block_hash)]

\* msg_block for a block not seen before when propagate_block_to_network
\* raises: the exception leaves msg_block, nothing after line 52 runs.
UnseenPathPropagationRaises(block_hash, seen, registry) ==
    [calls |-> <<Event("BLOCK_RECEIVED_FROM_BLOCKCHAIN_NODE", block_hash),
                 Event("block_to_bx_block", block_hash),
                 Event("BLOCK_COMPRESSED", block_hash),
                 Event("propagate_block_to_network", block_hash),
                 Event("raised", block_hash)>>,
     blocks_seen |-> seen,
     recovery_registry |-> registry]

msg_block(block_hash, seen, registry) ==
    IF AlreadySeen(block_hash, seen)
    THEN SeenPath(block_hash, seen, registry)
    ELSE UnseenPath(block_hash, seen, registry)

\* hash_to_contents[tx_hash] = tx_bytes: a known hash keeps its place in the
\* enumeration and gets the new contents, a new hash is enumerated last.
HashToContentsSetDefault(cache, tx_hash, tx_bytes) ==
    IF \E i \in 1..Len(cache) : cache[i].hash = tx_hash
    THEN cache
    ELSE Append(cache, [hash |-> tx_hash, contents |-> tx_bytes])

hash_to_contents_set(cache, tx_hash, tx_bytes) ==
    IF \E i \in 1..Len(cache) : cache[i].hash = tx_hash
    THEN Tuple([i \in 1..Len(cache) |->
                    IF cache[i].hash = tx_hash
                    THEN [hash |-> tx_hash, contents |-> tx_bytes]
                    ELSE cache[i]])
    ELSE Append(cache, [hash |-> tx_hash, contents |-> tx_bytes])

\* The connection the protocol object belongs to: the one to the local node.
Connection == "blockchain_node"

\* One tuple of message_converter.tx_to_bx_txs: the overlay message of
\* transaction t, its hash and its bytes (variant 1: the bytes with a
\* trailing zero byte, as a second encoding of the transaction).
TxTuple(t, variant) ==
    LET tx_bytes == IF variant = 0 THEN TxBytes(t) ELSE Append(TxBytes(t), 0)
    IN  [blx_txmsg |-> [tx_hash |-> TxHashStr(t), tx_val |-> tx_bytes],
         tx_hash |-> TxHashStr(t), tx_bytes |-> tx_bytes]

\* The loop of msg_tx from tuple i (0-based) on: broadcast the overlay
\* message to every connection but this one, then store the bytes.
RECURSIVE msg_tx_loop(_, _, _, _)
msg_tx_loop(cache, trace, tuples, i) ==
    IF i >= Len(tuples) THEN [calls |-> trace, tx_cache |-> cache]
    ELSE LET tuple == tuples[i + 1]
         IN  msg_tx_loop(
                hash_to_contents_set(cache, tuple.tx_hash, tuple.tx_bytes),
                trace \o <<Event("broadcast",
                                 [msg |-> tuple.blx_txmsg, exclude |-> Connection]),
                           Event("hash_to_contents",
                                 [tx_hash |-> tuple.tx_hash,
                                  tx_bytes |-> tuple.tx_bytes])>>,
                tuples, i + 1)

msg_tx(cache, tuples) == msg_tx_loop(cache, <<>>, tuples, 0)

\* msg_block with the outcome of propagate_block_to_network given: it
\* returns (completes) or raises.
msg_block_outcome(block_hash, seen, registry, completes) ==
    IF AlreadySeen(block_hash, seen) \/ completes
    THEN msg_block(block_hash, seen, registry)
    ELSE UnseenPathPropagationRaises(block_hash, seen, registry)

\* The block hashes a handler has propagated to the network: those with a
\* propagate_block_to_network call that returned.
Propagated(trace) ==
    {trace[i][2] : i \in {k \in 1..Len(trace) :
        /\ trace[k][1] = "propagate_block_to_network"
        /\ ~(k < Len(trace) /\ trace[k + 1][1] = "raised")}}

\* propagate_block_to_network encrypts the block and keeps the key under
\* the block hash: in_progress_blocks after a handler with this trace.
in_progress_blocks_add(in_progress, trace) == in_progress \cup Propagated(trace)

\* in_progress_blocks.get_encryption_key(block_hash): the key kept for the
\* hash, none (KeyError) for a hash no key is kept for.
EncryptionKey(block_hash) == <<block_hash, block_hash>>

get_encryption_key(in_progress, block_hash) ==
    IF block_hash \in in_progress THEN Some(EncryptionKey(block_hash)) ELSE None

\* KeyMessage(ObjectHash(block_hash), key, network_num)
KeyMessage(block_hash, key) == [msg_hash |-> block_hash, key |-> key]

\* send_key: look the key up, broadcast the key message to every connection
\* but this one, record the statistics event.
SendKeyNoLookup(block_hash, in_progress) ==
    [raised |-> "",
     calls |-> <<Event("get_encryption_key", block_hash),
                 Event("broadcast",
                       [msg |-> KeyMessage(block_hash, EncryptionKey(block_hash)),
                        exclude |-> Connection]),
                 Event("ENC_BLOCK_KEY_SENT_FROM_GATEWAY_TO_PEER", block_hash)>>]

send_key(block_hash, in_progress) ==
    LET key == get_encryption_key(in_progress, block_hash)
    IN  IF key = None
        THEN [raised |-> "KeyError",
              calls |-> <<Event("get_encryption_key", block_hash)>>]
        ELSE [raised |-> "",
              calls |-> <<Event("get_encryption_key", block_hash),
                          Event("broadcast",
                                [msg |-> KeyMessage(block_hash, Val(key)),
                                 exclude |-> Connection]),
                          Event("ENC_BLOCK_KEY_SENT_FROM_GATEWAY_TO_PEER",
                                block_hash)>>]

\* The state of a gateway that has received nothing.
Init ==
    /\ block = <<>>
    /\ kind = "wellformed"
    /\ msg = [block_header |-> <<>>, short_nonce_buf |-> <<>>,
              short_ids |-> <<>>, prefilled_txns |-> <<>>]
    /\ tx_cache = <<>>
    /\ pc = "idle"
    /\ result = NoResult
    /\ block_transactions = <<>>
    /\ missing_indices = <<>>
    /\ recovered_transactions = <<>>
    /\ recovery_result = NoRecoveryResult
    /\ second_recovery_result = NoRecoveryResult
    /\ blx_txmsgs = <<>>
    /\ blocks_seen = <<>>
    /\ recovery_registry = EmptyDict
    /\ in_progress_blocks = {}
    /\ calls = <<>>
    /\ InitConn
    /\ StatsConstructed(1)

\* The local node sends the full block with hash h.
MsgBlock(h) ==
    /\ \E completes \in BOOLEAN :
        LET r == msg_block_outcome(h, blocks_seen, recovery_registry, completes)
        IN  /\ calls' = r.calls
            /\ blocks_seen' = r.blocks_seen
            /\ recovery_registry' = r.recovery_registry
            /\ in_progress_blocks' =
                    in_progress_blocks_add(in_progress_blocks, r.calls)
    /\ UNCHANGED <<tx_cache, blx_txmsgs, decomp_vars>>
    /\ UNCHANGED <<conn_vars, stats_vars>>

\* The local node sends transaction t: it is broadcast to the peers, then
\* stored in the cache.
MsgTx(t) ==
    /\ LET r == msg_tx(tx_cache, <<TxTuple(t, 0)>>)
       IN  /\ calls' = r.calls
           /\ tx_cache' = r.tx_cache
    /\ blx_txmsgs' = <<TxTuple(t, 0)>>
    /\ UNCHANGED <<blocks_seen, recovery_registry, in_progress_blocks,
                   decomp_vars>>
    /\ UNCHANGED <<conn_vars, stats_vars>>

\* The local node sends the compact block with hash h: a complete
\* decompression (r) is handled as the full block, a partial one is kept in
\* the recovery registry and a recovery request goes out.
CompactBlockDecompressed(h, r) ==
    /\     IF r.raised # ""
           THEN /\ calls' = <<Event("msg_compact_block", h),
                              Event("MalformedCompactBlock", h)>>
                /\ UNCHANGED <<blocks_seen, recovery_registry,
                               in_progress_blocks>>
           ELSE IF r.success
           THEN LET f == msg_block(h, blocks_seen, recovery_registry)
                IN  /\ calls' = <<Event("msg_compact_block", h)>> \o f.calls
                    /\ blocks_seen' = f.blocks_seen
                    /\ recovery_registry' = f.recovery_registry
                    /\ in_progress_blocks' =
                            in_progress_blocks_add(in_progress_blocks, f.calls)
           ELSE /\ calls' = <<Event("msg_compact_block", h),
                              Event("recovery_request", h)>>
                /\ recovery_registry' =
                      DictSet(recovery_registry, h,
                              [block_transactions |-> Val(r.block_transactions),
                               missing_indices |->
                                    Val(r.missing_transactions_indices)])
                /\ UNCHANGED <<blocks_seen, in_progress_blocks>>
    /\ UNCHANGED <<tx_cache, blx_txmsgs, decomp_vars>>
    /\ UNCHANGED <<conn_vars, stats_vars>>

MsgCompactBlock(h) ==
    CompactBlockDecompressed(h,
        decompress_compact_block(BTC_MAGIC, PipelineCompactBlock(h), tx_cache))

\* The recovery service delivers the missing transactions of block h: the
\* entry leaves the registry and the block is handled as the full block.
RecoveryResolved(h) ==
    /\ h \in DOMAIN recovery_registry
    /\ LET item == recovery_registry[h]
           f == msg_block(h, blocks_seen,
                          cancel_recovery_for_block(recovery_registry, h))
       IN  /\ decompress_recovered_compact_block(BTC_MAGIC,
                    PipelineCompactBlock(h), item.block_transactions,
                    item.missing_indices,
                    MissingTransactions(PipelineBlock(h), item.missing_indices)
                    ).success
           /\ calls' = <<Event("recovery_resolved", h)>> \o f.calls
           /\ blocks_seen' = f.blocks_seen
           /\ recovery_registry' = f.recovery_registry
           /\ in_progress_blocks' =
                    in_progress_blocks_add(in_progress_blocks, f.calls)
    /\ UNCHANGED <<tx_cache, blx_txmsgs, decomp_vars>>
    /\ UNCHANGED <<conn_vars, stats_vars>>

\* The recovery deadline of block h expires: the entry is dropped.
RecoveryDeadline(h) ==
    /\ h \in DOMAIN recovery_registry
    /\ calls' = <<Event("RecoveryTimeout", h)>>
    /\ recovery_registry' = cancel_recovery_for_block(recovery_registry, h)
    /\ UNCHANGED <<tx_cache, blx_txmsgs, blocks_seen, in_progress_blocks,
                   decomp_vars>>
    /\ UNCHANGED <<conn_vars, stats_vars>>

\* The protocol asks for the key of block h to be released.
SendKey(h) ==
    /\ calls' = send_key(h, in_progress_blocks).calls
    /\ UNCHANGED <<tx_cache, blx_txmsgs, blocks_seen, recovery_registry,
                   in_progress_blocks, decomp_vars>>
    /\ UNCHANGED <<conn_vars, stats_vars>>

Next ==
    \/ \E h \in BlockHashes : MsgBlock(h)
    \/ \E t \in PipelineTxs : MsgTx(t)
    \/ \E h \in BlockHashes : MsgCompactBlock(h)
    \/ \E h \in BlockHashes : RecoveryResolved(h)
    \/ \E h \in BlockHashes : RecoveryDeadline(h)
    \/ \E h \in BlockHashes : SendKey(h)

Spec == Init /\ [][Next]_vars

\* ------------------------------------------------------------------------
\* Transactions and compact blocks interleaved on the event loop
\* ------------------------------------------------------------------------

\* The blocks announced on the loop: one or two transactions.
LoopBlocks == {b \in Blocks : Len(b) \in {1, 2}}

\* What a decompression returned is local to its handler: when the next
\* event is taken it is gone.
ResultGone ==
    /\ block' = <<>>
    /\ kind' = "wellformed"
    /\ msg' = [block_header |-> <<>>, short_nonce_buf |-> <<>>,
               short_ids |-> <<>>, prefilled_txns |-> <<>>]
    /\ pc' = "idle"
    /\ result' = NoResult
    /\ block_transactions' = <<>>
    /\ missing_indices' = <<>>
    /\ UNCHANGED <<recovered_transactions, recovery_result,
                   second_recovery_result>>

\* The local node sends transaction t while compact blocks arrive.
LoopMsgTx(t) ==
    /\ LET r == msg_tx(tx_cache, <<TxTuple(t, 0)>>)
       IN  /\ calls' = r.calls
           /\ tx_cache' = r.tx_cache
    /\ blx_txmsgs' = <<TxTuple(t, 0)>>
    /\ ResultGone
    /\ UNCHANGED <<blocks_seen, recovery_registry, in_progress_blocks>>
    /\ UNCHANGED <<conn_vars, stats_vars>>

\* The cache evicts transaction t (the transaction service may do so
\* between two events of the loop).
hash_to_contents_evict(cache, tx_hash) ==
    SelectSeq(cache, LAMBDA e : e.hash # tx_hash)

CacheEvict(t) ==
    /\ \E i \in 1..Len(tx_cache) : tx_cache[i].hash = TxHashStr(t)
    /\ tx_cache' = hash_to_contents_evict(tx_cache, TxHashStr(t))
    /\ calls' = <<Event("evict", TxHashStr(t))>>
    /\ ResultGone
    /\ blx_txmsgs' = <<>>
    /\ UNCHANGED <<blocks_seen, recovery_registry, in_progress_blocks>>
    /\ UNCHANGED <<conn_vars, stats_vars>>

\* The compact block m of block b arrives and is decompressed against the
\* cache as it is now (r is what decompress_compact_block returns).
LoopDecompressed(b, m, r) ==
    /\ block' = b
    /\ kind' = "wellformed"
    /\ msg' = m
    /\ result' = r
    /\ pc' = IF r.raised # "" THEN "raised"
             ELSE IF r.success THEN "complete" ELSE "partial"
    /\ block_transactions' =
            IF r.block_transactions = None THEN <<>>
            ELSE Val(r.block_transactions)
    /\ missing_indices' =
            IF r.missing_transactions_indices = None THEN <<>>
            ELSE Val(r.missing_transactions_indices)
    /\ calls' = <<Event("decompress_compact_block", b)>>
    /\ blx_txmsgs' = <<>>
    /\ UNCHANGED <<tx_cache, recovered_transactions, recovery_result,
                   second_recovery_result, blocks_seen, recovery_registry,
                   in_progress_blocks>>
    /\ UNCHANGED <<conn_vars, stats_vars>>

\* The compact block of b lists every transaction as a short ID.
LoopCompactBlock(b) ==
    LoopDecompressed(b, CompactBlock(b, {}),
        decompress_compact_block(BTC_MAGIC, CompactBlock(b, {}), tx_cache))

\* One event of the loop at a time: each handler runs to its end before the
\* next event is taken.
NextLoop ==
    \/ \E t \in Txs : LoopMsgTx(t)
    \/ \E b \in LoopBlocks : LoopCompactBlock(b)
    \/ \E t \in Txs : CacheEvict(t)

SpecLoop == Init /\ [][NextLoop]_vars

\* ------------------------------------------------------------------------
\* Transaction dispatch on every cache and tuple list of the bounds
\* ------------------------------------------------------------------------

\* The tuple lists the converter may return for one transaction message.
TxTuples == {TxTuple(t, variant) : t \in Txs, variant \in {0, 1}}

TxTupleLists == UNION {[1..n -> TxTuples] : n \in 0..MaxTxTuples}

InitTx ==
    /\ block = <<>>
    /\ kind = "wellformed"
    /\ msg = [block_header |-> <<>>, short_nonce_buf |-> <<>>,
              short_ids |-> <<>>, prefilled_txns |-> <<>>]
    /\ tx_cache \in Caches
    /\ pc = "tx_received"
    /\ result = NoResult
    /\ block_transactions = <<>>
    /\ missing_indices = <<>>
    /\ recovered_transactions = <<>>
    /\ recovery_result = NoRecoveryResult
    /\ second_recovery_result = NoRecoveryResult
    /\ blx_txmsgs \in TxTupleLists
    /\ blocks_seen = <<>>
    /\ recovery_registry = EmptyDict
    /\ in_progress_blocks = {}
    /\ calls = <<>>
    /\ InitConn
    /\ StatsConstructed(1)

\* msg_tx runs on the tuples of the message.
DispatchTx ==
    /\ pc = "tx_received"
    /\ LET r == msg_tx(tx_cache, blx_txmsgs)
       IN  /\ calls' = r.calls
           /\ tx_cache' = r.tx_cache
    /\ pc' = "tx_dispatched"
    /\ UNCHANGED <<block, kind, msg, result, block_transactions,
                   missing_indices, recovered_transactions, recovery_result,
                   second_recovery_result, blx_txmsgs, blocks_seen,
                   recovery_registry, in_progress_blocks>>
    /\ UNCHANGED <<conn_vars, stats_vars>>

NextTx == DispatchTx

SpecTx == InitTx /\ [][NextTx]_vars

\* ------------------------------------------------------------------------
\* Messages for the local node (GatewayNode.send_bytes_to_node)
\* ------------------------------------------------------------------------

\* The messages handed to send_bytes_to_node, as bytes.
NodeMsgs == {<<m>> : m \in 1..NumNodeMsgs}

\* send_bytes_to_node: the connection's enqueue_msg_bytes when node_conn is
\* set, node_msg_queue.append otherwise.
SendBytesDropsDisconnected(conn, queue, message) ==
    IF conn # None
    THEN [node_conn |-> Some(Append(Val(conn), message)), node_msg_queue |-> queue]
    ELSE [node_conn |-> conn, node_msg_queue |-> queue]

SendBytesQueuesInFront(conn, queue, message) ==
    IF conn # None
    THEN [node_conn |-> Some(Append(Val(conn), message)), node_msg_queue |-> queue]
    ELSE [node_conn |-> conn, node_msg_queue |-> <<message>> \o queue]

send_bytes_to_node(conn, queue, message) ==
    IF conn # None
    THEN [node_conn |-> Some(Append(Val(conn), message)), node_msg_queue |-> queue]
    ELSE [node_conn |-> conn, node_msg_queue |-> Append(queue, message)]

\* The queue a message for the local node goes to.
TargetQueue == IF node_conn # None THEN Val(node_conn) ELSE node_msg_queue

\* The gateway has a message for the local node.
SendBytesToNode(message) ==
    /\ Len(TargetQueue) < MaxQueued
    /\ LET r == send_bytes_to_node(node_conn, node_msg_queue, message)
       IN  /\ node_conn' = r.node_conn
           /\ node_msg_queue' = r.node_msg_queue
    /\ calls' = <<Event("send_bytes_to_node", message)>>
    /\ UNCHANGED <<tx_cache, decomp_vars, blx_txmsgs, blocks_seen,
                   recovery_registry, in_progress_blocks, stats_vars>>

\* The connection to the local node is established: the messages queued
\* while there was none are enqueued on it in queue order, in the handler
\* that sets node_conn, and node_msg_queue is empty again.
NodeConnected ==
    /\ node_conn = None
    /\ node_conn' = Some(node_msg_queue)
    /\ node_msg_queue' = <<>>
    /\ calls' = <<Event("node_connected", <<>>)>>
    /\ UNCHANGED <<tx_cache, decomp_vars, blx_txmsgs, blocks_seen,
                   recovery_registry, in_progress_blocks, stats_vars>>

\* The connection to the local node is lost.
NodeDisconnected ==
    /\ node_conn # None
    /\ node_conn' = None
    /\ calls' = <<Event("node_disconnected", <<>>)>>
    /\ UNCHANGED <<tx_cache, decomp_vars, blx_txmsgs, blocks_seen,
                   recovery_registry, in_progress_blocks, node_msg_queue,
                   stats_vars>>

\* The connection writes the first message of its outbound queue to the
\* socket.
NodeConnSends ==
    /\ node_conn # None
    /\ Val(node_conn) # <<>>
    /\ node_conn' = Some(Tail(Val(node_conn)))
    /\ calls' = <<Event("socket_send", Head(Val(node_conn)))>>
    /\ UNCHANGED <<tx_cache, decomp_vars, blx_txmsgs, blocks_seen,
                   recovery_registry, in_progress_blocks, node_msg_queue,
                   stats_vars>>

NextNode ==
    \/ \E message \in NodeMsgs : SendBytesToNode(message)
    \/ NodeConnected
    \/ NodeDisconnected
    \/ NodeConnSends

SpecNode == Init /\ [][NextNode]_vars

\* ------------------------------------------------------------------------
\* BDN performance statistics (_GatewayBdnPerformanceStatsService)
\* ------------------------------------------------------------------------

\* The look_back values the service is constructed with.
LookBacks == 1..MaxLookBack

\* The kinds of log_* calls, each with the counter it increments.
LogKinds ==
    {"log_block_from_blockchain_node", "log_block_from_bdn",
     "log_tx_from_blockchain_node", "log_tx_from_bdn"}

CounterOf(log_kind) ==
    CASE log_kind = "log_block_from_blockchain_node"
            -> "new_blocks_received_from_blockchain_node"
      [] log_kind = "log_block_from_bdn" -> "new_blocks_received_from_bdn"
      [] log_kind = "log_tx_from_blockchain_node"
            -> "new_tx_received_from_blockchain_node"
      [] log_kind = "log_tx_from_bdn" -> "new_tx_received_from_bdn"

\* self.interval_data.<counter> += 1 on the interval object at place.
log_counter(objects, place, counter) ==
    [objects EXCEPT ![place][counter] = @ + 1]

\* self.history.append(interval): the history keeps the look_back intervals
\* appended last (a deque of that maximum length in the base class).
history_append(closed, place, max_len) ==
    LET appended == Append(closed, place)
    IN  IF Len(appended) > max_len THEN Tail(appended) ELSE appended

\* get_most_recent_stats: history[0] when the history is not empty (the
\* interval object, by its place), None otherwise.
get_most_recent_stats(closed) ==
    IF closed # <<>> THEN Some(closed[1]) ELSE None

\* The log_* calls made on the current interval so far.
LoggedCount ==
    logged.log_block_from_blockchain_node + logged.log_block_from_bdn
        + logged.log_tx_from_blockchain_node + logged.log_tx_from_bdn

InitStats ==
    /\ block = <<>>
    /\ kind = "wellformed"
    /\ msg = [block_header |-> <<>>, short_nonce_buf |-> <<>>,
              short_ids |-> <<>>, prefilled_txns |-> <<>>]
    /\ tx_cache = <<>>
    /\ pc = "idle"
    /\ result = NoResult
    /\ block_transactions = <<>>
    /\ missing_indices = <<>>
    /\ recovered_transactions = <<>>
    /\ recovery_result = NoRecoveryResult
    /\ second_recovery_result = NoRecoveryResult
    /\ blx_txmsgs = <<>>
    /\ blocks_seen = <<>>
    /\ recovery_registry = EmptyDict
    /\ in_progress_blocks = {}
    /\ calls = <<>>
    /\ InitConn
    /\ \E lb \in LookBacks : StatsConstructed(lb)

\* log_block_from_blockchain_node, log_block_from_bdn,
\* log_tx_from_blockchain_node or log_tx_from_bdn is called.
Log(log_kind) ==
    /\ LoggedCount < MaxLogged
    /\ intervals' = log_counter(intervals, interval_data, CounterOf(log_kind))
    /\ logged' = [logged EXCEPT ![log_kind] = @ + 1]
    /\ calls' = <<Event(log_kind, interval_data)>>
    /\ UNCHANGED <<tx_cache, decomp_vars, blx_txmsgs, blocks_seen,
                   recovery_registry, in_progress_blocks, conn_vars,
                   look_back, interval_data, history>>

\* close_interval_data is called: the end time is set and the current
\* interval is appended to the history; it stays the current interval.
CloseIntervalData ==
    /\ intervals' = [intervals EXCEPT ![interval_data].closed = TRUE]
    /\ history' = history_append(history, interval_data, look_back)
    /\ calls' = <<Event("close_interval_data", interval_data)>>
    /\ UNCHANGED <<tx_cache, decomp_vars, blx_txmsgs, blocks_seen,
                   recovery_registry, in_progress_blocks, conn_vars,
                   look_back, interval_data, logged>>

\* The base class starts a new interval after a flush (reset=True).
CreateIntervalData ==
    /\ Len(intervals) < MaxIntervals
    /\ intervals[interval_data].closed
    /\ intervals' = Append(intervals, NewInterval)
    /\ interval_data' = Len(intervals) + 1
    /\ logged' = NothingLogged
    /\ calls' = <<Event("create_interval_data", Len(intervals) + 1)>>
    /\ UNCHANGED <<tx_cache, decomp_vars, blx_txmsgs, blocks_seen,
                   recovery_registry, in_progress_blocks, conn_vars,
                   look_back, history>>

NextStats ==
    \/ \E log_kind \in LogKinds : Log(log_kind)
    \/ CloseIntervalData
    \/ CreateIntervalData

SpecStats == InitStats /\ [][NextStats]_vars

\* ------------------------------------------------------------------------
\* What the claims about the decompressor speak of
\* ------------------------------------------------------------------------

\* decompress_compact_block has run.
Decompressed ==
    pc \in {"raised", "complete", "partial", "recovered", "recovered_twice"}

\* The compact block is the compact form of block (no malformed entry).
WellFormed == kind = "wellformed"

\* The transactions in the cache.
CachedTxs == {t \in Txs : CacheEntry(t) \in Range(tx_cache)}

\* The positions (1-based) of block whose transactions are sent prefilled
\* and as short IDs.
PrefilledPositions == {msg.prefilled_txns[i][1] + 1 : i \in 1..Len(msg.prefilled_txns)}

ShortPositions == (1..Len(block)) \ PrefilledPositions

\* The short ID of transaction t under the key of msg, as the peer computes it.
TrueShortId(t) == ShortIdStr(SipKey(msg), t)

\* Every short-ID-referenced transaction of block is in the cache.
AllShortCached == \A i \in ShortPositions : block[i] \in CachedTxs

\* Every short ID the compact block lists is the short ID of a cached
\* transaction.
AllShortIdsFound ==
    \A i \in 1..Len(msg.short_ids) :
        \E t \in CachedTxs : TrueShortId(t) = msg.short_ids[i]

\* No two cached transactions have the same short ID among the short IDs
\* the compact block lists.
NoListedCollision ==
    \A t, u \in CachedTxs :
        (t # u /\ InList(TrueShortId(t), msg.short_ids))
            => TrueShortId(t) # TrueShortId(u)

\* The payload of a block message: what follows the 24-byte envelope.
Payload(m) == SubSeq(m, 25, Len(m))

\* The payload of block b: header, transaction count, transactions in order.
BlockPayload(b) ==
    BlockHeader(b) \o <<Len(b)>> \o Concat([i \in 1..Len(b) |-> TxBytes(b[i])])

\* C1 as stated: whenever the compact form of a block whose short-ID
\* transactions are all cached has been decompressed, the result is a
\* success whose payload is the header, the count and the block's
\* transactions in the block's order.
C1_RoundTripAnyCache ==
    (Decompressed /\ WellFormed /\ AllShortCached)
        => /\ result.raised = ""
           /\ result.success
           /\ result.block_btc_message # None
           /\ Payload(Val(result.block_btc_message)) = BlockPayload(block)

\* C1 as amended: the round trip holds when, besides, no two cached
\* transactions share a short ID that the compact block lists.
C1_RoundTrip ==
    (Decompressed /\ WellFormed /\ AllShortCached /\ NoListedCollision)
        => /\ result.raised = ""
           /\ result.success
           /\ result.block_btc_message # None
           /\ Payload(Val(result.block_btc_message)) = BlockPayload(block)

\* A block of prefilled and short-ID slots has made the round trip.
C1_Witness ==
    /\ pc = "complete" /\ WellFormed /\ AllShortCached /\ NoListedCollision
    /\ Len(msg.short_ids) >= 2
    /\ Len(msg.prefilled_txns) >= 1
    /\ Payload(Val(result.block_btc_message)) = BlockPayload(block)

\* C2: a well-formed compact block always gets a result, and every result is
\* Complete (success, a message, no slot list, no missing list) exactly when
\* every listed short ID is that of a cached transaction, and Partial (no
\* success, no message, the slot list, a non-empty missing list) otherwise.
C2_CompleteXorPartial ==
    Decompressed =>
        /\ WellFormed => result.raised = ""
        /\ result.raised = "" =>
            IF AllShortIdsFound
            THEN /\ result.success
                 /\ result.block_btc_message # None
                 /\ result.block_transactions = None
                 /\ result.missing_transactions_indices = None
            ELSE /\ ~result.success
                 /\ result.block_btc_message = None
                 /\ result.block_transactions # None
                 /\ result.missing_transactions_indices # None
                 /\ Val(result.missing_transactions_indices) # <<>>

\* A Partial result with a found slot and a missing slot has been returned.
C2_Witness ==
    /\ pc = "partial"
    /\ ~result.success
    /\ \E i \in 1..Len(msg.short_ids) :
            \E t \in CachedTxs : TrueShortId(t) = msg.short_ids[i]
    /\ ~AllShortIdsFound

\* C3: in a Partial result the slot list has one slot per prefilled entry
\* and short ID, and the missing list is the positions of the empty slots in
\* ascending order.
C3_SlotAccounting ==
    (Decompressed /\ result.raised = "" /\ ~result.success) =>
        LET slots == Val(result.block_transactions)
            missing == Val(result.missing_transactions_indices)
        IN  /\ Len(slots) = Len(msg.prefilled_txns) + Len(msg.short_ids)
            /\ missing = Ascending({i - 1 : i \in {j \in 1..Len(slots) : slots[j] = None}})
            /\ \A i, j \in 1..Len(missing) : i < j => missing[i] < missing[j]

\* A Partial result with two missing slots around a filled one.
C3_Witness ==
    /\ pc = "partial"
    /\ Len(Val(result.missing_transactions_indices)) >= 2
    /\ \E j \in 1..Len(Val(result.block_transactions)) :
            Val(result.block_transactions)[j] # None

\* The resolver was handed the block's transactions at the missing indices.
RecoveredRight ==
    /\ pc = "recovered"
    /\ recovered_transactions = MissingTransactions(block, missing_indices)

\* The cache with the missing transactions of block added.
CacheWithMissing ==
    tx_cache \o Tuple([i \in 1..Len(missing_indices) |->
                        CacheEntry(block[missing_indices[i] + 1])])

\* The missing transactions have short IDs of their own.
MissingShortIdsDistinct ==
    \A i, j \in 1..Len(missing_indices) :
        i # j => TrueShortId(block[missing_indices[i] + 1])
                    # TrueShortId(block[missing_indices[j] + 1])

\* C4 as stated: recovery with the missing transactions succeeds with the
\* message decompression returns when the cache holds them too.
C4_RecoveryEquivalenceAnyMissing ==
    RecoveredRight =>
        LET full == decompress_compact_block(BTC_MAGIC, msg, CacheWithMissing)
        IN  /\ recovery_result.raised = ""
            /\ recovery_result.success
            /\ full.raised = ""
            /\ full.success
            /\ recovery_result.block_btc_message = full.block_btc_message

\* C4 as amended: the same, when the missing transactions have pairwise
\* distinct short IDs.
C4_RecoveryEquivalence ==
    (RecoveredRight /\ MissingShortIdsDistinct) =>
        LET full == decompress_compact_block(BTC_MAGIC, msg, CacheWithMissing)
        IN  /\ recovery_result.raised = ""
            /\ recovery_result.success
            /\ full.raised = ""
            /\ full.success
            /\ recovery_result.block_btc_message = full.block_btc_message

\* Two missing transactions have been recovered into a block that has a
\* found slot too.
C4_Witness ==
    /\ RecoveredRight /\ MissingShortIdsDistinct
    /\ Len(missing_indices) >= 2
    /\ Len(block_transactions) > Len(missing_indices)
    /\ recovery_result.success

\* C5: handed a list of another length than the missing indices, the
\* resolver returns a failure without a message and leaves the slot list as
\* decompression returned it, every missing slot empty.
C5_RecoveryMismatch ==
    (pc = "recovered" /\ Len(recovered_transactions) # Len(missing_indices)) =>
        /\ recovery_result.raised = ""
        /\ ~recovery_result.success
        /\ recovery_result.block_btc_message = None
        /\ block_transactions = Val(result.block_transactions)
        /\ \A i \in 1..Len(missing_indices) :
                block_transactions[missing_indices[i] + 1] = None

\* The resolver has been handed more transactions than are missing.
C5_Witness ==
    /\ pc = "recovered"
    /\ Len(recovered_transactions) > Len(missing_indices)
    /\ ~recovery_result.success

\* C8 as stated: a compact block with a repeated prefilled index, or one
\* that is N or more, makes decompress_compact_block fail with the decode
\* error MalformedCompactBlock, which the caller can handle; nothing else
\* leaves the function.
C8_MalformedIsDecodeError ==
    (Decompressed /\ ~WellFormed) => result.raised = "MalformedCompactBlock"

\* The message a run emitted: Complete's, or a successful recovery's.
Emitted ==
    IF pc = "complete" THEN result.block_btc_message
    ELSE IF pc = "recovered" /\ recovery_result.success
    THEN recovery_result.block_btc_message
    ELSE None

\* The transactions of the emitted message: the slots as the walk filled
\* them, or the caller's slot list after the recovery.
EmittedTxs ==
    IF pc = "complete"
    THEN LET total == Len(msg.prefilled_txns) + Len(msg.short_ids)
         IN  Unwrapped(WalkSlots(WalkStart(msg, total), msg,
                                 short_id_to_tx_hash(msg, tx_cache), 0,
                                 total).block_transactions)
    ELSE Unwrapped(block_transactions)

\* C10: every emitted block message is 24 bytes longer than its payload,
\* its length field is the payload's length, which is 80 plus the size of
\* the varint of N plus the lengths of the N transactions, and its checksum
\* field is the first 4 bytes of the double SHA-256 of the payload.
C10_EnvelopeValidity ==
    Emitted # None =>
        LET m == Val(Emitted)
            payload_len == FromLittleEndian(SubSeq(m, 17, 20))
        IN  /\ Len(m) = payload_len + 24
            /\ payload_len = 80 + get_sizeof_btc_varint(Len(EmittedTxs))
                                + TotalLen(EmittedTxs)
            /\ SubSeq(m, 21, 24) = SubSeq(bitcoin_hash(SubSeq(m, 25, Len(m))), 1, 4)
            /\ SubSeq(m, 1, 4) = LittleEndian(BTC_MAGIC, 4)
            /\ SubSeq(m, 5, 16) = BLOCK_COMMAND

\* A recovered block of three transactions has been emitted.
C10_Witness ==
    /\ pc = "recovered" /\ recovery_result.success
    /\ Len(block_transactions) >= 3
    /\ Len(Val(Emitted)) > 24 + 80 + 1

\* ------------------------------------------------------------------------
\* What the claims about block dispatch speak of
\* ------------------------------------------------------------------------

\* C6: a block hash that is in SeenBlocks is not handed to the neutrality
\* service for propagation by any handler, so between its insertion and its
\* eviction it is propagated at most once (by the handler that inserted it).
C6_SeenBlocksDedup ==
    [][\A h \in BlockHashes :
            InList(h, blocks_seen)
                => ~InList(Event("propagate_block_to_network", h), calls')]_vars

\* A seen block has arrived again while SeenBlocks was full, and was ignored.
C6_Witness ==
    \E h \in BlockHashes :
        /\ InList(h, blocks_seen)
        /\ Len(blocks_seen) >= 2
        /\ InList(Event("BLOCK_RECEIVED_FROM_BLOCKCHAIN_NODE_IGNORE_SEEN", h), calls)
        /\ ~InList(Event("propagate_block_to_network", h), calls)

\* C7: when msg_block handles a block whose hash is in SeenBlocks, it records
\* the received and the IGNORE_SEEN events and does nothing else: no
\* compression, no propagation, no broadcast, and SeenBlocks (members and
\* order), the recovery registry and the cache are as before.
C7_SeenBlockOnlyStats ==
    [][\A h \in BlockHashes :
            (/\ InList(h, blocks_seen)
             /\ calls' # <<>>
             /\ calls'[1] = Event("BLOCK_RECEIVED_FROM_BLOCKCHAIN_NODE", h))
                => /\ calls' = <<Event("BLOCK_RECEIVED_FROM_BLOCKCHAIN_NODE", h),
                                 Event("BLOCK_RECEIVED_FROM_BLOCKCHAIN_NODE_IGNORE_SEEN", h)>>
                   /\ blocks_seen' = blocks_seen
                   /\ recovery_registry' = recovery_registry
                   /\ tx_cache' = tx_cache]_vars

\* msg_block has ignored the oldest of two seen blocks.
C7_Witness ==
    /\ Len(blocks_seen) >= 2
    /\ calls = <<Event("BLOCK_RECEIVED_FROM_BLOCKCHAIN_NODE", blocks_seen[1]),
                 Event("BLOCK_RECEIVED_FROM_BLOCKCHAIN_NODE_IGNORE_SEEN", blocks_seen[1])>>

\* C9 as stated: after msg_block has handled the full block with hash h and
\* returned, the recovery registry holds no entry for h, whether or not h was
\* in SeenBlocks.
C9_RecoveryCancelledOnFullBlock ==
    \A h \in BlockHashes :
        (/\ InList(Event("BLOCK_RECEIVED_FROM_BLOCKCHAIN_NODE", h), calls)
         /\ ~InList(Event("raised", h), calls))
            => h \notin DOMAIN recovery_registry

\* C11: the resolver called twice in succession with the same compact block,
\* the same slot list, the same missing indices and the same recovered
\* transactions returns the same result both times: the same success flag
\* and the same block message.
C11_RecoveryIdempotent ==
    pc = "recovered_twice" => second_recovery_result = recovery_result

\* Both calls succeeded and returned a block message.
C11_Witness ==
    /\ pc = "recovered_twice"
    /\ recovery_result.success
    /\ second_recovery_result.success
    /\ second_recovery_result.block_btc_message # None

\* The entries of a cache under a hash, and the bytes of the last tuple of a
\* list with a hash.
EntriesOf(cache, tx_hash) == {i \in 1..Len(cache) : cache[i].hash = tx_hash}

LastInsert(tuples, tx_hash) ==
    LET last == CHOOSE i \in 1..Len(tuples) :
                    /\ tuples[i].tx_hash = tx_hash
                    /\ \A k \in (i + 1)..Len(tuples) : tuples[k].tx_hash # tx_hash
    IN  tuples[last].tx_bytes

\* C12: msg_tx takes the tuples in order and for each one first broadcasts
\* the overlay message once, the sending connection excluded, then stores
\* the bytes under the hash; afterwards there are as many broadcasts as
\* tuples, every tuple's hash is in the cache with the bytes of its last
\* insert, the other entries are as before, and with no tuple there is no
\* broadcast and the cache is unchanged.
C12_TxDispatch ==
    [][(pc = "tx_received" /\ pc' = "tx_dispatched") =>
        /\ Len(calls') = 2 * Len(blx_txmsgs)
        /\ \A i \in 1..Len(blx_txmsgs) :
            /\ calls'[2 * i - 1] =
                    <<"broadcast", [msg |-> blx_txmsgs[i].blx_txmsg,
                                    exclude |-> Connection]>>
            /\ calls'[2 * i] =
                    <<"hash_to_contents", [tx_hash |-> blx_txmsgs[i].tx_hash,
                                           tx_bytes |-> blx_txmsgs[i].tx_bytes]>>
        /\ Cardinality({k \in 1..Len(calls') : calls'[k][1] = "broadcast"})
                = Len(blx_txmsgs)
        /\ \A i \in 1..Len(blx_txmsgs) :
            /\ Cardinality(EntriesOf(tx_cache', blx_txmsgs[i].tx_hash)) = 1
            /\ \A k \in EntriesOf(tx_cache', blx_txmsgs[i].tx_hash) :
                    tx_cache'[k].contents =
                        LastInsert(blx_txmsgs, blx_txmsgs[i].tx_hash)
        /\ \A k \in 1..Len(tx_cache) :
                (\A i \in 1..Len(blx_txmsgs) :
                        blx_txmsgs[i].tx_hash # tx_cache[k].hash)
                    => tx_cache[k] \in Range(tx_cache')
        /\ \A k \in 1..Len(tx_cache') :
                \/ tx_cache'[k].hash \in {tx_cache[j].hash : j \in 1..Len(tx_cache)}
                \/ \E i \in 1..Len(blx_txmsgs) :
                        blx_txmsgs[i].tx_hash = tx_cache'[k].hash
        /\ blx_txmsgs = <<>> => (calls' = <<>> /\ tx_cache' = tx_cache)
    ]_vars

\* msg_tx has handled two tuples of one hash with different bytes, the hash
\* was in the cache before, and the cache holds the bytes of the second.
C12_Witness ==
    /\ pc = "tx_dispatched"
    /\ Len(blx_txmsgs) = 2
    /\ blx_txmsgs[1].tx_hash = blx_txmsgs[2].tx_hash
    /\ blx_txmsgs[1].tx_bytes # blx_txmsgs[2].tx_bytes
    /\ Len(calls) = 4
    /\ \E k \in 1..Len(tx_cache) :
            /\ tx_cache[k].hash = blx_txmsgs[2].tx_hash
            /\ tx_cache[k].contents = blx_txmsgs[2].tx_bytes
            /\ tx_cache[k].contents # TxBytes(1)
            /\ tx_cache[k].hash = TxHashStr(1)

\* The key message of block h is broadcast in a trace.
KeyBroadcast(h, trace) ==
    InList(Event("broadcast", [msg |-> KeyMessage(h, EncryptionKey(h)),
                               exclude |-> Connection]), trace)

C13_SeenBlocksBoundedFifo ==
    [][/\ Len(blocks_seen') <= SeenBlocksCapacity
       /\ \A i, j \in 1..Len(blocks_seen') :
                i # j => blocks_seen'[i] # blocks_seen'[j]
       /\ blocks_seen' # blocks_seen =>
            \E h \in BlockHashes \ Range(blocks_seen) :
                blocks_seen' =
                    Append(IF Len(blocks_seen) = SeenBlocksCapacity
                           THEN Tail(blocks_seen) ELSE blocks_seen, h)
      ]_vars

\* msg_block has inserted a hash into the full SeenBlocks: a block that was
\* propagated is no longer in it.
C13_Witness ==
    /\ Len(blocks_seen) = SeenBlocksCapacity
    /\ calls # <<>>
    /\ calls[Len(calls)] = Event("blocks_seen.add", blocks_seen[Len(blocks_seen)])
    /\ in_progress_blocks \ Range(blocks_seen) # {}

\* The transaction of a cache entry, and the places in the cache's
\* enumeration of the transactions with a short ID under the key of msg.
TxOfEntry(e) == CHOOSE t \in Txs : CacheEntry(t) = e

PlacesWith(short_id) ==
    {i \in 1..Len(tx_cache) : TrueShortId(TxOfEntry(tx_cache[i])) = short_id}

Last(S) == CHOOSE x \in S : \A y \in S : y <= x

\* C14: the map decompress_compact_block builds has only short IDs the
\* compact block lists as keys; each key is the short ID of a cached
\* transaction and maps to the bytes of one such transaction, which is, of
\* the cached transactions with this short ID, the one the cache enumerates
\* last: the map is a function of the key and the enumeration order.
C14_ShortIdMap ==
    Decompressed =>
        \A short_id \in DOMAIN short_id_to_tx_hash(msg, tx_cache) :
            /\ InList(short_id, msg.short_ids)
            /\ PlacesWith(short_id) # {}
            /\ short_id_to_tx_hash(msg, tx_cache)[short_id]
                    = tx_cache[Last(PlacesWith(short_id))].contents

\* A map has been built from a cache in which two transactions share a
\* listed short ID and a third one has a short ID that is not listed.
C14_Witness ==
    /\ Decompressed
    /\ \E short_id \in DOMAIN short_id_to_tx_hash(msg, tx_cache) :
            Cardinality(PlacesWith(short_id)) >= 2
    /\ \E t \in CachedTxs : ~InList(TrueShortId(t), msg.short_ids)

\* C16: a call of send_bytes_to_node puts the message in exactly one place:
\* at the end of the outbound queue of the connection to the local node when
\* node_conn is set, leaving node_msg_queue as it is, and at the end of
\* node_msg_queue otherwise, after the messages queued by the calls before.
C16_SendBytesQueued ==
    [][\A message \in NodeMsgs :
            calls' = <<Event("send_bytes_to_node", message)>> =>
                IF node_conn # None
                THEN /\ node_conn' = Some(Append(Val(node_conn), message))
                     /\ node_msg_queue' = node_msg_queue
                ELSE /\ node_conn' = None
                     /\ node_msg_queue' = Append(node_msg_queue, message)
      ]_vars

\* Two messages have been queued while the local node was not connected,
\* in the order of the calls.
C16_Witness ==
    /\ node_msg_queue = <<<<2>>, <<1>>>>
    /\ node_conn = None
    /\ calls = <<Event("send_bytes_to_node", <<1>>)>>

\* C17 as stated: get_most_recent_stats returns None while no interval has
\* been closed, and right after close_interval_data it returns the interval
\* just closed, whose four counters are the numbers of log_* calls of each
\* kind made during that interval.
C17_MostRecentStats ==
    /\ history = <<>> => get_most_recent_stats(history) = None
    /\ calls = <<Event("close_interval_data", interval_data)>> =>
            /\ get_most_recent_stats(history) = Some(interval_data)
            /\ \A log_kind \in LogKinds :
                    intervals[interval_data][CounterOf(log_kind)]
                        = logged[log_kind]

\* The absolute indices (0-based) of the prefilled entries of msg, and the
\* number of slots before index that are not prefilled.
PrefilledIndices ==
    {msg.prefilled_txns[i][1] : i \in 1..Len(msg.prefilled_txns)}

ShortSlotsBefore(index) == Cardinality((0..(index - 1)) \ PrefilledIndices)

\* The walk after its first n iterations is in state st: the cursor has
\* advanced once per slot that is not prefilled, every prefilled entry is at
\* its absolute index, and the j-th of the other slots holds what the map
\* has for short_ids[j], or nothing and is recorded missing.
WalkedRight(n, st, map) ==
    /\ st.raised = ""
    /\ st.short_tx_index = ShortSlotsBefore(n)
    /\ st.short_tx_index <= Len(msg.short_ids)
    /\ Len(st.block_transactions) = n
    /\ \A index \in 0..(n - 1) :
            IF index \in PrefilledIndices
            THEN \E i \in 1..Len(msg.prefilled_txns) :
                    /\ msg.prefilled_txns[i][1] = index
                    /\ st.block_transactions[index + 1]
                            = Some(msg.prefilled_txns[i][2])
            ELSE LET short_id == msg.short_ids[ShortSlotsBefore(index) + 1]
                 IN  IF short_id \in DOMAIN map
                     THEN st.block_transactions[index + 1] = Some(map[short_id])
                     ELSE /\ st.block_transactions[index + 1] = None
                          /\ InList(index, st.missing_transactions_indices)

\* C18: on a well-formed compact block of N slots, after every number of
\* iterations of the walk the short-ID cursor is the number of slots walked
\* that are not prefilled (it advances by one for each of them, found or
\* missing, and never for a prefilled slot), so the j-th such slot is
\* resolved with short_ids[j] and each prefilled entry lands at its absolute
\* index; the cursor never exceeds len(short_ids) and equals it at the end.
C18_InterleavedSlots ==
    (Decompressed /\ WellFormed) =>
        LET total_txs_count == Len(msg.prefilled_txns) + Len(msg.short_ids)
        IN  /\ \A n \in 0..total_txs_count :
                    WalkedRight(n,
                        WalkSlots(WalkStart(msg, total_txs_count), msg,
                                  short_id_to_tx_hash(msg, tx_cache), 0, n),
                        short_id_to_tx_hash(msg, tx_cache))
            /\ WalkSlots(WalkStart(msg, total_txs_count), msg,
                         short_id_to_tx_hash(msg, tx_cache), 0,
                         total_txs_count).short_tx_index = Len(msg.short_ids)

\* A block with a missing short-ID slot, then a prefilled slot, then a found
\* short-ID slot has been walked.
C18_Witness ==
    /\ Decompressed /\ WellFormed
    /\ pc = "partial"
    /\ Len(block) = 3
    /\ PrefilledIndices = {1}
    /\ missing_indices = <<0>>
    /\ block_transactions[3] # None

\* The places of an event in a trace.
Places(e, trace) == {i \in 1..Len(trace) : trace[i] = e}

\* C19: a handler that hands block hash h to propagate_block_to_network
\* does so once, and h is not in SeenBlocks then; when the propagation
\* returns, the recovery of h is cancelled next and h is inserted into
\* SeenBlocks after that, each once; when it raises, h is not inserted and
\* its recovery is not cancelled.
C19_UnseenBlockStepOrder ==
    [][\A h \in BlockHashes :
            Places(Event("propagate_block_to_network", h), calls') # {} =>
                /\ ~InList(h, blocks_seen)
                /\ Cardinality(Places(Event("propagate_block_to_network", h),
                                      calls')) = 1
                /\ IF InList(Event("raised", h), calls')
                   THEN /\ Places(Event("cancel_recovery_for_block", h), calls') = {}
                        /\ Places(Event("blocks_seen.add", h), calls') = {}
                        /\ blocks_seen' = blocks_seen
                        /\ recovery_registry' = recovery_registry
                   ELSE /\ \E i \in 1..(Len(calls') - 2) :
                            /\ Places(Event("propagate_block_to_network", h),
                                      calls') = {i}
                            /\ Places(Event("cancel_recovery_for_block", h),
                                      calls') = {i + 1}
                            /\ Places(Event("blocks_seen.add", h), calls')
                                    = {i + 2}
                        /\ InList(h, blocks_seen')
                        /\ h \notin DOMAIN recovery_registry'
      ]_vars

\* The propagation of a block with a recovery pending has raised: the block
\* is not in SeenBlocks and its recovery is still pending.
C19_Witness ==
    \E h \in BlockHashes :
        /\ InList(Event("propagate_block_to_network", h), calls)
        /\ InList(Event("raised", h), calls)
        /\ ~InList(h, blocks_seen)
        /\ h \in DOMAIN recovery_registry
        /\ blocks_seen # <<>>

\* msg_tx has stored transaction t in the handler whose trace this is.
Stored(t, trace) ==
    \E i \in 1..Len(trace) :
        /\ trace[i][1] = "hash_to_contents"
        /\ trace[i][2].tx_bytes = TxBytes(t)
        /\ trace[i][2].tx_hash = TxHashStr(t)

\* The transactions in a cache.
CachedIn(cache) == {t \in Txs : CacheEntry(t) \in Range(cache)}

\* A handler with this trace has taken the cache from the transactions
\* before to the transactions after: a transaction it stored is in the
\* cache, one that entered was stored by it, one that left was evicted.
CacheStepRight(before, after, trace) ==
    \A t \in Txs :
        /\ Stored(t, trace) => t \in after
        /\ t \in after \ before => Stored(t, trace)
        /\ t \in before \ after => trace[1][1] = "evict"

\* The decompression of the compact block of b (short IDs in short_ids, one
\* per slot) against a cache holding the transactions cached has ended in
\* state p with these slots and missing indices: the slot of a cached
\* transaction is filled and not missing, and a filled slot holds the bytes
\* of a cached transaction with the short ID listed for it.
SlotsFromCache(cached, b, short_ids, p, slots, missing) ==
    /\ p \in {"complete", "partial"}
    /\ \A i \in 1..Len(b) :
        /\ b[i] \in cached =>
                /\ ~InList(i - 1, missing)
                /\ p = "partial" => slots[i] # None
        /\ (p = "complete" \/ slots[i] # None) =>
                \E t \in cached :
                    /\ short_ids[t] = short_ids[b[i]]
                    /\ p = "partial" => slots[i] = Some(TxBytes(t))

\* The short ID of every transaction under a key.
ShortIdsUnder(key) == Tuple([t \in 1..NumTxs |-> ShortIdStr(key, t)])

\* C20: on the loop a transaction is in the cache exactly from the end of
\* its msg_tx handler to its eviction, no handler but msg_tx adds one, and a
\* decompression leaves the cache as it is when it starts and works on that
\* cache: the slot of a short ID of a transaction in the cache is filled and
\* not reported missing, and a slot is only filled with the bytes of a
\* transaction that is in the cache then and has the short ID listed for
\* the slot.
C20_CacheWriteBeforeDecompression ==
    /\ [][/\ CacheStepRight(CachedIn(tx_cache), CachedIn(tx_cache'), calls')
          /\ (calls' # <<>> /\ calls'[1][1] = "decompress_compact_block") =>
                tx_cache' = tx_cache
         ]_vars
    /\ [](calls = <<Event("decompress_compact_block", block)>> =>
            SlotsFromCache(CachedIn(tx_cache), block,
                           ShortIdsUnder(SipKey(msg)), pc,
                           block_transactions, missing_indices))

\* A compact block of two transactions has been decompressed after the
\* msg_tx of the first and before that of the second, with a third
\* transaction stored in between: the slot of the first is filled, the slot
\* of the second is missing.
C20_Witness ==
    /\ calls = <<Event("decompress_compact_block", block)>>
    /\ pc = "partial"
    /\ Len(block) = 2
    /\ missing_indices = <<1>>
    /\ block_transactions[1] = Some(TxBytes(block[1]))
    /\ block[1] \in CachedIn(tx_cache)
    /\ block[2] \notin CachedIn(tx_cache)
    /\ Len(tx_cache) = 2

\* The transaction count a block message carries: the varint after the
\* message header and the block header.
EmittedTxCount(m) ==
    LET off == BTC_HDR_COMMON_OFF + BLOCK_HEADER_LEN
        first == m[off + 1]
    IN  IF first < 253 THEN first
        ELSE IF first = 253 THEN FromLittleEndian(Slice(m, off + 1, off + 3))
        ELSE IF first = 254 THEN FromLittleEndian(Slice(m, off + 1, off + 5))
        ELSE FromLittleEndian(Slice(m, off + 1, off + 9))

\* C21: after a successful decompress_recovered_compact_block the caller's
\* slot list has its length of before, holds recovered_transactions[i] at
\* missing_indices[i] for every i and, at every other position, what it
\* held before the call; no slot is empty, and the transaction count of the
\* block message is the length of the slot list.
C21_RecoveryInPlace ==
    (pc = "recovered" /\ recovery_result.success) =>
        LET before == Val(result.block_transactions)
        IN  /\ Len(block_transactions) = Len(before)
            /\ \A i \in 1..Len(missing_indices) :
                    block_transactions[missing_indices[i] + 1]
                        = Some(recovered_transactions[i])
            /\ \A k \in 1..Len(before) :
                    ~InList(k - 1, missing_indices) =>
                        block_transactions[k] = before[k]
            /\ \A k \in 1..Len(block_transactions) :
                    block_transactions[k] # None
            /\ EmittedTxCount(Val(recovery_result.block_btc_message))
                    = Len(block_transactions)

\* A recovery has succeeded on a slot list of three with a missing slot
\* between two slots that decompression had filled.
C21_Witness ==
    /\ pc = "recovered"
    /\ recovery_result.success
    /\ Len(block_transactions) = 3
    /\ missing_indices = <<1>>
    /\ Val(result.block_transactions)[2] = None
    /\ block_transactions[2] = Some(recovered_transactions[1])

\* The messages waiting for the local node when the connection is conn and
\* the node's own queue is queue: those on the connection, then those the
\* node has queued.
Waiting(conn, queue) == (IF conn # None THEN Val(conn) ELSE <<>>) \o queue

====
